---------------------------- MODULE Spec2Model ----------------------------
(***************************************************************************)
(* A model of the write-ahead log of src/wal.go (type WAL, lines 1-867).   *)
(*                                                                         *)
(* The directory is a function from file names to file contents.  A data   *)
(* file is a sequence of bytes together with the content that has reached  *)
(* stable storage; an index file is a sequence of 8-byte slots.  An open    *)
(* handle names the file it was opened on; when that name is removed while *)
(* the handle is open the file lives on under an orphan name that no path  *)
(* reaches, as an unlinked inode does.                                     *)
(*                                                                         *)
(* Every handler is an operator from a record of the WAL's fields and the  *)
(* directory to the record after the call; field err holds the returned    *)
(* error ("nil" when none) and "panic" when the Go runtime panics.         *)
(***************************************************************************)
EXTENDS Integers, Sequences, FiniteSets, TLC

\* ------------------------------------------------------------------ bounds
SegmentEntries == 3          \* Options.SegmentEntries of the run
SegmentSize == 6             \* Options.SegmentSize of the run (bytes)
MaxIndex == 4                \* largest index passed to Write
MaxSteps == 9                \* number of calls (and crashes) in a run
Data == {<<1>>, <<2>>}      \* payloads passed to Write

\* --------------------------------------------------------- program constants
DefaultBase == 10
nameLength == 20
logSuffix == ".log"
indexSuffix == ".idx"
cleanSuffix == ".log.clean"
truncateSuffix == ".log.trunc"
tmpfile == [stem |-> <<>>, ext |-> "wal.tmp"]
NoFile == [stem |-> <<>>, ext |-> ""]
indexSpace == SegmentEntries + 1

NoErr == "nil"
ErrClosed == "closed"
ErrUnexpectedSize == "unexpected size"
ErrOutOfRange == "out of range"
ErrZeroIndex == "index can not be zero"
ErrOutOfOrder == "out of order"
ErrInvalid == "invalid argument"
ErrNotExist == "file does not exist"
ErrEOF == "EOF"
ErrBase == "2 <= base <= 36"
Panic == "panic"

\* ------------------------------------------------------------------ codec
RECURSIVE EncodeVarint(_)
EncodeVarint(v) ==
    IF v < 128 THEN <<v>> ELSE <<128 + (v % 128)>> \o EncodeVarint(v \div 128)

\* [n |-> bytes consumed (0 when no terminating byte), v |-> value]
RECURSIVE DecodeVarintFrom(_, _, _, _)
DecodeVarintFrom(d, i, mult, acc) ==
    IF i > Len(d) THEN [n |-> 0, v |-> 0]
    ELSE IF d[i] < 128 THEN [n |-> i, v |-> acc + d[i] * mult]
    ELSE DecodeVarintFrom(d, i + 1, mult * 128, acc + (d[i] - 128) * mult)

DecodeVarint(d) == DecodeVarintFrom(d, 1, 1, 0)

\* ------------------------------------------------------------------ names
RECURSIVE FormatUint(_, _)
FormatUint(v, b) ==
    IF v < b THEN <<v>> ELSE Append(FormatUint(v \div b, b), v % b)

RECURSIVE ParseUint(_, _)
ParseUint(s, b) ==
    IF s = <<>> THEN 0
    ELSE ParseUint(SubSeq(s, 1, Len(s) - 1), b) * b + s[Len(s)]

Zeros(n) == [i \in 1..n |-> 0]

segmentName(offset) ==
    LET d == FormatUint(offset, DefaultBase)
    IN  Zeros(nameLength - Len(d)) \o d

parseSegmentName(stem) == ParseUint(SubSeq(stem, 1, nameLength), DefaultBase)

logName(offset) == [stem |-> segmentName(offset), ext |-> logSuffix]
indexName(offset) == [stem |-> segmentName(offset), ext |-> indexSuffix]

\* ------------------------------------------------------------- file system
Put(F, k, v) == [x \in (DOMAIN F) \cup {k} |-> IF x = k THEN v ELSE F[x]]
Del(F, k) == [x \in (DOMAIN F) \ {k} |-> F[x]]
Exists(F, k) == k \in DOMAIN F
NewFile == [data |-> <<>>, synced |-> <<>>]
Fsize(F, k) == Len(F[k].data)

\* os.Create: O_RDWR|O_CREATE|O_TRUNC
Create(F, k) == Put(F, k, NewFile)
\* os.Remove of an existing file
Remove(F, k) == Del(F, k)
\* os.Rename: the target is replaced
Rename(F, old, new) == Put(Del(F, old), new, F[old])
\* File.Truncate to a larger size zero-fills; contents reach the file at once
TruncateTo(F, k, n) ==
    LET d == F[k].data
        nd == IF n <= Len(d) THEN SubSeq(d, 1, n) ELSE d \o Zeros(n - Len(d))
    IN  Put(F, k, [F[k] EXCEPT !.data = nd])
\* File.Sync
FSync(F, k) == Put(F, k, [F[k] EXCEPT !.synced = F[k].data])
\* the name under which a file lives on when its name is removed while open
OrphanExt(ext) ==
    CASE ext = logSuffix -> ".log (deleted)"
      [] ext = indexSuffix -> ".idx (deleted)"
      [] OTHER -> "(deleted)"
Orphan(k) == [stem |-> k.stem, ext |-> OrphanExt(k.ext)]
IsOrphan(k) == k.ext \in {".log (deleted)", ".idx (deleted)", "(deleted)"}
\* File.Write of bytes b at file position pos (0-based), a hole reads as zeros
WriteAt(F, k, pos, b) ==
    LET d == F[k].data
        pre == IF pos <= Len(d) THEN SubSeq(d, 1, pos)
               ELSE d \o Zeros(pos - Len(d))
        post == IF pos + Len(b) < Len(d) THEN SubSeq(d, pos + Len(b) + 1, Len(d))
                ELSE <<>>
    IN  Put(F, k, [F[k] EXCEPT !.data = pre \o b \o post])

\* ------------------------------------------------------------------ segment
\* logFile: "nil", "ro" (os.Open) or "rw" (os.Create, os.OpenFile O_RDWR);
\* pos is the file position of logFile; logIno and indexIno are the files the
\* open handles logFile and indexFile (with indexMmap) refer to.
NewSegment(offset) ==
    [offset |-> offset, len |-> 0,
     logPath |-> logName(offset), indexPath |-> indexName(offset),
     logFile |-> "nil", logIno |-> NoFile, pos |-> 0,
     indexFile |-> FALSE, indexIno |-> NoFile, indexMmap |-> FALSE]

\* slot r of the index mmap of segment s
Slot(F, s, r) == F[s.indexIno].data[r + 1]
SetSlot(F, s, r, v) ==
    Put(F, s.indexIno, [F[s.indexIno] EXCEPT !.data[r + 1] = v])

\* segment.readIndex; callers check the bounds of the slice expressions
readIndex(F, s, index) ==
    LET r == index - s.offset
    IN  IF r = 1 THEN [start |-> 0, end |-> Slot(F, s, 1)]
        ELSE [start |-> Slot(F, s, r - 1), end |-> Slot(F, s, r)]

\* the slice expressions of readIndex are in range
readIndexOK(s, index) ==
    LET r == index - s.offset
    IN  s.indexMmap /\ r >= 1 /\ r <= SegmentEntries

\* the rebuild loop of segment.load (lines 139-151): one iteration per entry
RECURSIVE rebuildIndex(_, _, _, _, _)
rebuildIndex(F, s, data, position, i) ==
    IF Len(data) = 0
    THEN [files |-> SetSlot(F, s, 0, i - 1), seg |-> [s EXCEPT !.len = i - 1],
          err |-> NoErr]
    ELSE LET dv == DecodeVarint(data)
             n == dv.n + dv.v
         IN  IF n > Len(data) \/ n = 0 \/ i > SegmentEntries
             THEN [files |-> F, seg |-> s, err |-> Panic]
             ELSE rebuildIndex(SetSlot(F, s, i, position + n), s,
                               SubSeq(data, n + 1, Len(data)), position + n, i + 1)

\* segment.load, lines 108-120: create and map the index file
openIndex(F, s) ==
    IF s.indexFile THEN [files |-> F, seg |-> s, err |-> NoErr]
    ELSE [files |-> TruncateTo(Create(F, s.indexPath), s.indexPath, indexSpace),
          seg |-> [s EXCEPT !.indexFile = TRUE, !.indexIno = s.indexPath,
                            !.indexMmap = TRUE],
          err |-> NoErr]

\* segment.load, lines 121-130: read len and the size slot, open the data file
openLog(x) ==
    LET len == Slot(x.files, x.seg, 0)
    IN  IF len > SegmentEntries THEN [x EXCEPT !.seg.len = len, !.err = Panic]
        ELSE IF x.seg.logFile # "nil" THEN [x EXCEPT !.seg.len = len]
        ELSE IF ~Exists(x.files, x.seg.logPath)
        THEN [x EXCEPT !.seg.len = len, !.err = ErrNotExist]
        ELSE [x EXCEPT !.seg.len = len, !.seg.logFile = "ro",
                       !.seg.logIno = x.seg.logPath, !.seg.pos = 0]

\* segment.load, lines 131-153: rebuild the index when the size differs
checkSize(x) ==
    LET s == x.seg
        n == Fsize(x.files, s.logIno)
    IN  IF x.err # NoErr \/ Slot(x.files, s, s.len) = n THEN x
        ELSE IF n = 0 THEN [x EXCEPT !.err = ErrInvalid]
        ELSE rebuildIndex(x.files, s, x.files[s.logIno].data, 0, 1)

\* segment.load
load(F, s) == checkSize(openLog(openIndex(F, s)))

\* segment.close
close(F, s) ==
    [files |-> IF s.logFile # "nil" THEN FSync(F, s.logIno) ELSE F,
     seg |-> [s EXCEPT !.logFile = "nil", !.logIno = NoFile, !.pos = 0,
                       !.indexFile = FALSE, !.indexIno = NoFile,
                       !.indexMmap = FALSE, !.len = 0]]

\* ---------------------------------------------------------------------- WAL
\* lastSegment is "nil", "last" (the pointer equals segments[len-1]) or
\* "detached": a segment object that is no longer in the list.  The only
\* place that drops the tail from the list and keeps the pointer is the
\* boundary path of Truncate, which has closed the object before.
Then(W, F(_)) == IF W.err = NoErr THEN F(W) ELSE W

\* the open handles on file k: the segments of the list and those of the goroutines
Repoint(s, k, to) ==
    [s EXCEPT !.logIno = IF s.logFile # "nil" /\ s.logIno = k THEN to ELSE s.logIno,
              !.indexIno = IF s.indexFile /\ s.indexIno = k THEN to ELSE s.indexIno]
IsOpenOn(s, k) ==
    (s.logFile # "nil" /\ s.logIno = k) \/ (s.indexFile /\ s.indexIno = k)
IsOpen(W, k) ==
    \/ \E i \in 1..Len(W.segments) : IsOpenOn(W.segments[i], k)
    \/ \E i \in 1..Len(W.removes) : IsOpenOn(W.removes[i], k)
RepointAll(W, k, to) ==
    [W EXCEPT !.segments = [i \in 1..Len(W.segments) |-> Repoint(W.segments[i], k, to)],
              !.removes = [i \in 1..Len(W.removes) |-> Repoint(W.removes[i], k, to)]]

\* os.Remove; the error of a missing file is the caller's to handle
Unlink(W, k) ==
    IF ~Exists(W.files, k) THEN W
    ELSE IF IsOpen(W, k)
    THEN [RepointAll(W, k, Orphan(k)) EXCEPT !.files = Rename(W.files, k, Orphan(k))]
    ELSE [W EXCEPT !.files = Remove(W.files, k)]

\* os.Rename: the file that had the new name is unlinked
RenameW(W, old, new) ==
    LET W1 == Unlink(W, new)
    IN  [RepointAll(W1, old, new) EXCEPT !.files = Rename(W1.files, old, new)]

\* an orphan goes when its last handle is closed
Gc(W) ==
    [W EXCEPT !.files = [k \in {x \in DOMAIN W.files : ~IsOrphan(x) \/ IsOpen(W, x)}
                           |-> W.files[k]]]

\* segment.remove: both results are ignored by every caller
remove(W, s) == Unlink(Unlink(W, s.indexPath), s.logPath)
Fail(W, e) == [W EXCEPT !.err = e]
Last(W) == W.segments[Len(W.segments)]
SetLast(W, s) == [W EXCEPT !.segments[Len(W.segments)] = s]

\* WAL.closeLastSegment
closeLastSegment(W) ==
    IF W.lastSegment = "last"
    THEN LET c == close(W.files, Last(W))
         IN  [SetLast(W, c.seg) EXCEPT !.files = c.files]
    ELSE W

\* WAL.appendSegment
appendSegment(W) ==
    LET Created(W1, s) ==
            [W1 EXCEPT
                !.segments = Append(W1.segments,
                    [s EXCEPT !.logFile = "rw", !.logIno = s.logPath,
                              !.indexFile = TRUE, !.indexIno = s.indexPath,
                              !.indexMmap = TRUE]),
                !.lastSegment = "last",
                !.files = FSync(TruncateTo(Create(Create(W1.files, s.logPath),
                                                  s.indexPath),
                                           s.indexPath, indexSpace),
                                s.indexPath)]
    IN  Created(closeLastSegment(W), NewSegment(W.lastIndex))

\* WAL.resetLastSegment, lines 390-400: n is the size of the data file
seekLastSegment(W, n) ==
    LET Loaded(l) ==
            [SetLast(W, l.seg) EXCEPT
                !.files = l.files, !.err = l.err,
                !.lastIndex = IF l.err = NoErr THEN l.seg.offset + l.seg.len
                              ELSE W.lastIndex]
    IN  IF n <= 0 THEN [W EXCEPT !.lastIndex = Last(W).offset]
        ELSE Loaded(load(W.files, Last(W)))

\* WAL.resetLastSegment, lines 385-389: open the data file of the last segment
openLastSegment(W) ==
    LET s == Last(W)
    IN  IF ~Exists(W.files, s.logPath) THEN Fail(W, ErrNotExist)
        ELSE seekLastSegment(
                 SetLast(W, [s EXCEPT !.logFile = "rw", !.logIno = s.logPath,
                                      !.pos = Fsize(W.files, s.logPath)]),
                 Fsize(W.files, s.logPath))

\* WAL.resetLastSegment
resetLastSegment(W) ==
    openLastSegment([closeLastSegment(W) EXCEPT !.lastSegment = "last"])

\* WAL.loadSegment applied to segments[i] (1-based)
loadSegment(W, i) ==
    LET Loaded(l) == [W EXCEPT !.files = l.files, !.segments[i] = l.seg, !.err = l.err]
    IN  IF W.segments[i].len = 0 THEN Loaded(load(W.files, W.segments[i])) ELSE W

\* WAL.flush
flush(W) ==
    IF W.closed THEN Fail(W, ErrClosed)
    ELSE IF Len(W.writeBuffer) = 0 THEN W
    ELSE IF W.lastSegment = "nil" THEN Fail(W, Panic)
    ELSE IF W.lastSegment = "detached" \/ Last(W).logFile = "nil"
    THEN Fail(W, ErrInvalid)
    ELSE LET s == Last(W)
             F1 == WriteAt(W.files, s.logIno, s.pos, W.writeBuffer)
             s1 == [s EXCEPT !.pos = s.pos + Len(W.writeBuffer)]
         IN  [SetLast(W, s1) EXCEPT !.files = F1, !.writeBuffer = <<>>]

\* WAL.sync
sync(W) ==
    IF W.closed THEN Fail(W, ErrClosed)
    ELSE IF W.lastSegment = "nil" THEN W
    ELSE IF W.lastSegment = "detached" \/ Last(W).logFile = "nil"
    THEN Fail(W, ErrInvalid)
    ELSE [W EXCEPT !.files = FSync(W.files, Last(W).logIno)]

\* the index update and buffering at the end of WAL.Write (lines 515-523)
writeEntry(W, index, entryData, offset) ==
    LET s == Last(W)
        entries == index - s.offset
        pending == offset + Len(W.writeBuffer) + Len(entryData)
    IN  IF ~s.indexMmap \/ entries < 0 \/ entries > SegmentEntries
        THEN Fail(W, Panic)
        ELSE LET F1 == SetSlot(SetSlot(W.files, s, 0, entries), s, entries, pending)
             IN  [SetLast(W, [s EXCEPT !.len = entries]) EXCEPT
                     !.files = F1,
                     !.writeBuffer = W.writeBuffer \o entryData,
                     !.lastIndex = index]

\* WAL.Write from the Seek on (lines 488-523)
writeTail(W, index, data) ==
    IF W.lastSegment = "nil" THEN Fail(W, Panic)
    ELSE IF W.lastSegment = "detached" \/ Last(W).logFile = "nil"
    THEN Fail(W, ErrInvalid)
    ELSE LET end == Fsize(W.files, Last(W).logIno)
             W1 == SetLast(W, [Last(W) EXCEPT !.pos = end])
             entryData == EncodeVarint(Len(data)) \o data
         IN  IF end + Len(W1.writeBuffer) + Len(entryData) > SegmentSize
                \/ index - Last(W1).offset > SegmentEntries
             THEN LET W2 == Then(Then(flush(W1), sync), appendSegment)
                  IN  Then(W2, LAMBDA V : writeEntry(V, index, entryData, 0))
             ELSE writeEntry(W1, index, entryData, end)

\* Write that takes any index after the first (the order check of line 477 left out)
WriteUnordered(W, index, data) ==
    IF W.closed THEN Fail(W, ErrClosed)
    ELSE IF index = 0 THEN Fail(W, ErrZeroIndex)
    ELSE LET W1 == IF W.lastIndex = 0
                   THEN [W EXCEPT !.firstIndex = index, !.lastIndex = index - 1]
                   ELSE W
             W2 == IF Len(W1.segments) = 0 THEN appendSegment(W1) ELSE W1
         IN  writeTail(W2, index, data)

\* Write that tests the index before the closed flag (lines 471 and 474 swapped)
WriteZeroFirst(W, index, data) ==
    IF index = 0 THEN Fail(W, ErrZeroIndex)
    ELSE IF W.closed THEN Fail(W, ErrClosed)
    ELSE IF W.lastIndex > 0 /\ index # W.lastIndex + 1 THEN Fail(W, ErrOutOfOrder)
    ELSE LET W1 == IF W.lastIndex = 0
                   THEN [W EXCEPT !.firstIndex = index, !.lastIndex = index - 1]
                   ELSE W
             W2 == IF Len(W1.segments) = 0 THEN appendSegment(W1) ELSE W1
         IN  writeTail(W2, index, data)

\* WAL.Write
Write(W, index, data) ==
    IF W.closed THEN Fail(W, ErrClosed)
    ELSE IF index = 0 THEN Fail(W, ErrZeroIndex)
    ELSE IF W.lastIndex > 0 /\ index # W.lastIndex + 1 THEN Fail(W, ErrOutOfOrder)
    ELSE LET W1 == IF W.lastIndex = 0
                   THEN [W EXCEPT !.firstIndex = index, !.lastIndex = index - 1]
                   ELSE W
             W2 == IF Len(W1.segments) = 0 THEN appendSegment(W1) ELSE W1
         IN  writeTail(W2, index, data)

\* WAL.Flush
Flush(W) == flush(W)

\* WAL.Sync
Sync(W) == sync(W)

\* the goroutine started by Clean with NoSplitSegment: close and remove
RECURSIVE removeAll(_)
removeAll(W) ==
    IF W.removes = <<>> THEN W
    ELSE LET c == close(W.files, Head(W.removes))
         IN  removeAll(remove([W EXCEPT !.files = c.files, !.removes = Tail(W.removes)],
                              c.seg))

\* WAL.close: close every segment of the list, then wait for the goroutines
RECURSIVE closeFrom(_, _)
closeFrom(W, i) ==
    IF i > Len(W.segments) THEN W
    ELSE LET c == close(W.files, W.segments[i])
         IN  closeFrom([W EXCEPT !.files = c.files, !.segments[i] = c.seg], i + 1)

closeAll(W) ==
    LET W1 == closeFrom(W, 1)
    IN  removeAll(W1)

\* WAL.Close
Close(W) ==
    LET W1 == Then(flush(W), sync)
    IN  Then(W1, LAMBDA V : closeAll([V EXCEPT !.closed = TRUE]))

\* WAL.FirstIndex, WAL.LastIndex
FirstIndex(W) ==
    IF W.closed THEN [W EXCEPT !.err = ErrClosed, !.ret = 0]
    ELSE [W EXCEPT !.ret = W.firstIndex]
LastIndex(W) ==
    IF W.closed THEN [W EXCEPT !.err = ErrClosed, !.ret = 0]
    ELSE [W EXCEPT !.ret = W.lastIndex]

\* searchSegmentIndex returning low where the code returns high
RECURSIVE searchLow(_, _, _, _)
searchLow(segs, index, low, high) ==
    IF low > high THEN low
    ELSE LET mid == (low + high) \div 2
         IN  IF index > segs[mid + 1].offset
             THEN searchLow(segs, index, mid + 1, high)
             ELSE searchLow(segs, index, low, mid - 1)

\* WAL.searchSegmentIndex, 0-based as in the code (-1 when none)
RECURSIVE search(_, _, _, _)
search(segs, index, low, high) ==
    IF low > high THEN high
    ELSE LET mid == (low + high) \div 2
         IN  IF index > segs[mid + 1].offset
             THEN search(segs, index, mid + 1, high)
             ELSE search(segs, index, low, mid - 1)

searchSegmentIndex(W, index) == search(W.segments, index, 0, Len(W.segments) - 1)

\* WAL.checkIndex
checkIndex(W, index) ==
    IF W.closed THEN ErrClosed
    ELSE IF index = 0 \/ W.lastIndex = 0 \/ index < W.firstIndex \/ index > W.lastIndex
    THEN ErrOutOfRange
    ELSE NoErr

\* WAL.IsExist
IsExist(W, index) ==
    LET e == checkIndex(W, index)
    IN  IF e = ErrClosed THEN [W EXCEPT !.err = e, !.ret = FALSE]
        ELSE [W EXCEPT !.ret = (e = NoErr)]

\* WAL.Read after loadSegment (lines 663-678), i is the 1-based list position
readEntry(W, i, index) ==
    LET s == W.segments[i]
        Entry(r) ==
            LET W1 == [W EXCEPT !.segments[i].pos =
                          IF s.logFile = "nil" THEN 0 ELSE r.start]
                entryData == SubSeq(W.files[s.logIno].data, r.start + 1, r.end)
                dv == DecodeVarint(entryData)
            IN  IF r.end - r.start < 0 THEN Fail(W1, Panic)
                ELSE IF s.logFile = "nil" THEN Fail(W1, ErrInvalid)
                ELSE IF r.end > Fsize(W.files, s.logIno) THEN Fail(W1, ErrEOF)
                ELSE IF Len(entryData) - dv.n # dv.v THEN Fail(W1, ErrUnexpectedSize)
                ELSE [W1 EXCEPT !.ret = SubSeq(entryData, dv.n + 1, Len(entryData))]
    IN  IF ~readIndexOK(s, index) THEN Fail(W, Panic)
        ELSE Entry(readIndex(W.files, s, index))

\* WAL.Read
Read(W, index) ==
    LET At(segIndex) ==
            IF segIndex < 0 THEN Fail(W, Panic)
            ELSE Then(loadSegment(W, segIndex + 1),
                      LAMBDA V : readEntry(V, segIndex + 1, index))
    IN  IF checkIndex(W, index) # NoErr THEN Fail(W, checkIndex(W, index))
        ELSE At(searchSegmentIndex(W, index))

\* WAL.copy
copy(W, srcName, dstName, offset, size) ==
    LET Fill(F) ==
            IF offset < 0 \/ offset + size > Fsize(F, srcName)
            THEN Fail([W EXCEPT !.files = F], Panic)
            ELSE RenameW([W EXCEPT !.files =
                             FSync(WriteAt(F, tmpfile, 0,
                                           SubSeq(F[srcName].data, offset + 1,
                                                  offset + size)),
                                   tmpfile)],
                         tmpfile, dstName)
    IN  IF ~Exists(W.files, srcName) THEN Fail(W, ErrNotExist)
        ELSE IF Fsize(W.files, srcName) = 0 THEN Fail(W, ErrInvalid)
        ELSE IF size <= 0
        THEN Fail([W EXCEPT !.files = Create(W.files, tmpfile)], ErrInvalid)
        ELSE Fill(FSync(TruncateTo(Create(W.files, tmpfile), tmpfile, size), tmpfile))

\* close and remove segments[from..to] (1-based), the loops of Clean and Truncate
RECURSIVE closeRemove(_, _, _)
closeRemove(W, from, to) ==
    IF from > to THEN W
    ELSE LET c == close(W.files, W.segments[from])
         IN  closeRemove(remove([W EXCEPT !.files = c.files,
                                            !.segments[from] = c.seg], c.seg),
                         from + 1, to)

\* WAL.Clean, split path (lines 721-746); k is the 1-based position of s
cleanSplit(W, k, index) ==
    LET s == W.segments[k]
        cleanName == [stem |-> segmentName(index - 1), ext |-> cleanSuffix]
        start == readIndex(W.files, s, index).start
        end == readIndex(W.files, s, s.offset + s.len).end
        Renamed(V) ==
            [RenameW(V, cleanName, logName(index - 1)) EXCEPT
                !.segments = <<[V.segments[k] EXCEPT
                                  !.logPath = logName(index - 1),
                                  !.indexPath = indexName(index - 1),
                                  !.offset = index - 1, !.len = 0]>>
                             \o SubSeq(V.segments, k + 1, Len(V.segments)),
                !.firstIndex = index]
        Reopened(V) == IF Len(V.segments) = 1 THEN resetLastSegment(V) ELSE V
    IN  IF ~readIndexOK(s, index) \/ ~readIndexOK(s, s.offset + s.len)
        THEN Fail(W, Panic)
        ELSE Then(copy(W, s.logPath, cleanName, start, end - start),
                  LAMBDA V : Reopened(Renamed(closeRemove(V, 1, k))))

\* the head dropped from the list with first_index left as it was
cleanHeadKeepFirst(V, segIndex, index) ==
    [V EXCEPT !.segments = SubSeq(V.segments, segIndex + 1, Len(V.segments))]

\* WAL.Clean, the end of the aligned path (lines 701-702)
cleanHead(V, segIndex, index) ==
    [V EXCEPT !.segments = SubSeq(V.segments, segIndex + 1, Len(V.segments)),
              !.firstIndex = index]

\* WAL.Clean
Clean(W, index) ==
    LET Detached(V, segIndex) ==
            IF segIndex > 0
            THEN [V EXCEPT
                    !.removes = V.removes \o SubSeq(V.segments, 1, segIndex),
                    !.segments = SubSeq(V.segments, segIndex + 1, Len(V.segments)),
                    !.firstIndex = V.segments[segIndex + 1].offset + 1]
            ELSE V
        At(segIndex) ==
            IF segIndex < 0 THEN Fail(W, Panic)
            ELSE Then(loadSegment(W, segIndex + 1), LAMBDA V :
                   IF V.segments[segIndex + 1].offset = index - 1
                   THEN cleanHead(closeRemove(V, 1, segIndex), segIndex, index)
                   ELSE IF V.noSplitSegment THEN Detached(V, segIndex)
                   ELSE cleanSplit(V, segIndex + 1, index))
    IN  IF index = W.firstIndex THEN W
        ELSE IF checkIndex(W, index) # NoErr THEN Fail(W, checkIndex(W, index))
        ELSE At(searchSegmentIndex(W, index))

\* WAL.Truncate, split path (lines 779-798); k is the 1-based position of s
truncateSplit(W, k, index) ==
    LET s == W.segments[k]
        truncateName == [stem |-> segmentName(s.offset), ext |-> truncateSuffix]
        start == readIndex(W.files, s, s.offset + 1).start
        end == readIndex(W.files, s, index).end
        Renamed(V) ==
            [RenameW(V, truncateName, logName(s.offset)) EXCEPT
                !.segments = SubSeq(V.segments, 1, k),
                !.segments[k].logPath = logName(s.offset),
                !.lastIndex = index]
    IN  IF ~readIndexOK(s, s.offset + 1) \/ ~readIndexOK(s, index)
        THEN Fail(W, Panic)
        ELSE Then(copy(W, s.logPath, truncateName, start, end - start),
                  LAMBDA V : resetLastSegment(
                                 Renamed(closeRemove(V, k, Len(V.segments)))))

\* WAL.Truncate
Truncate(W, index) ==
    LET Removed(U, segIndex) ==
            [U EXCEPT !.segments = SubSeq(U.segments, 1, segIndex + 1),
                      !.lastIndex = index,
                      !.lastSegment = IF W.lastSegment = "last" THEN "detached"
                                      ELSE W.lastSegment]
        At(segIndex) ==
            IF segIndex < 0 THEN Fail(W, Panic)
            ELSE Then(loadSegment(W, segIndex + 1), LAMBDA V :
                   IF Len(V.segments) > segIndex + 1
                   THEN Then(loadSegment(V, segIndex + 2), LAMBDA U :
                          IF U.segments[segIndex + 2].offset = index
                          THEN Removed(closeRemove(U, segIndex + 2, Len(U.segments)),
                                       segIndex)
                          ELSE truncateSplit(U, segIndex + 1, index))
                   ELSE truncateSplit(V, segIndex + 1, index))
    IN  IF index = W.lastIndex THEN W
        ELSE IF checkIndex(W, index) # NoErr THEN Fail(W, checkIndex(W, index))
        ELSE At(searchSegmentIndex(W, index))

\* the files WAL.empty removes: a segment name followed by the log or index suffix
isSegmentFile(name) ==
    /\ Len(name.stem) = nameLength
    /\ name.ext \in {logSuffix, indexSuffix, cleanSuffix, truncateSuffix}

\* WAL.empty
empty(W) ==
    LET Emptied(V) ==
            [V EXCEPT !.files =
                [n \in {x \in DOMAIN V.files : ~isSegmentFile(x)} |-> V.files[n]]]
    IN  IF W.closed THEN Fail(W, ErrClosed) ELSE Emptied(closeAll(W))

\* reset that leaves first_index as it was (line 430 left out)
resetKeepFirst(W) ==
    Then(empty(W), LAMBDA V :
        [V EXCEPT !.lastIndex = 0, !.lastSegment = "nil", !.segments = <<>>])

\* WAL.reset
reset(W) ==
    Then(empty(W), LAMBDA V :
        [V EXCEPT !.firstIndex = 1, !.lastIndex = 0, !.lastSegment = "nil",
                  !.segments = <<>>])

\* WAL.Reset
Reset(W) == reset(W)

\* ------------------------------------------------------------------ Open
\* filepath.Walk visits the names of the directory in lexical order
RECURSIVE SeqLess(_, _)
SeqLess(a, b) ==
    IF a = <<>> THEN b # <<>>
    ELSE IF b = <<>> THEN FALSE
    ELSE IF Head(a) # Head(b) THEN Head(a) < Head(b)
    ELSE SeqLess(Tail(a), Tail(b))

ExtRank(ext) ==
    CASE ext = indexSuffix -> 1
      [] ext = logSuffix -> 2
      [] ext = cleanSuffix -> 3
      [] ext = truncateSuffix -> 4
      [] OTHER -> 5

NameLess(a, b) ==
    IF a.stem # b.stem THEN SeqLess(a.stem, b.stem) ELSE ExtRank(a.ext) < ExtRank(b.ext)

RECURSIVE SortNames(_)
SortNames(S) ==
    IF S = {} THEN <<>>
    ELSE LET m == CHOOSE x \in S : \A y \in S \ {x} : NameLess(x, y)
         IN  <<m>> \o SortNames(S \ {m})

\* a clean branch that leaves the accumulated segments in the directory
removeEachSkipped(W, segs) == W

\* the loop over w.segments of the clean branch (lines 311-313)
RECURSIVE removeEach(_, _)
removeEach(W, segs) ==
    IF segs = <<>> THEN W ELSE removeEach(remove(W, Head(segs)), Tail(segs))

\* the callback of filepath.Walk in WAL.load (lines 287-338); field truncate
\* of the record is the local variable of load
walkFn(W, name) ==
    IF ~Exists(W.files, name) THEN Fail(W, Panic)
    ELSE IF Len(name.stem) < nameLength
            \/ name.ext \notin {logSuffix, cleanSuffix, truncateSuffix}
    THEN W
    ELSE LET offset == parseSegmentName(name.stem)
             canonical == [stem |-> name.stem, ext |-> logSuffix]
             index == [stem |-> name.stem, ext |-> indexSuffix]
             s == [NewSegment(offset) EXCEPT !.logPath = canonical, !.indexPath = index]
         IN  IF name.ext = logSuffix
             THEN IF W.truncate
                  THEN LET F1 == Remove(W.files, name)
                       IN  IF ~Exists(F1, index)
                           THEN Fail([W EXCEPT !.files = F1], ErrNotExist)
                           ELSE [W EXCEPT !.files = Remove(F1, index)]
                  ELSE [W EXCEPT !.segments = Append(W.segments, s)]
             ELSE IF name.ext = cleanSuffix
             THEN LET W1 == removeEach(W, W.segments)
                  IN  [RenameW(W1, name, canonical) EXCEPT !.segments = <<s>>]
             ELSE LET n == Len(W.segments)
                      drop == n > 0 /\ W.segments[n].offset = offset
                      W1 == IF drop THEN remove(W, W.segments[n]) ELSE W
                      segs == IF drop THEN SubSeq(W.segments, 1, n - 1) ELSE W.segments
                  IN  [RenameW(W1, name, canonical) EXCEPT
                                !.truncate = TRUE,
                                !.segments = Append(segs, s)]

RECURSIVE walk(_, _)
walk(W, names) ==
    IF names = <<>> \/ W.err # NoErr THEN W
    ELSE walk(walkFn(W, Head(names)), Tail(names))

\* the WAL value built by Open (lines 256-268)
NewWAL(F, noSplit) ==
    [files |-> F, segments |-> <<>>, lastSegment |-> "nil", firstIndex |-> 0,
     lastIndex |-> 0, writeBuffer |-> <<>>, closed |-> FALSE, removes |-> <<>>,
     noSplitSegment |-> noSplit, err |-> NoErr, ret |-> <<>>, truncate |-> FALSE]

\* WAL.load
loadWAL(W) ==
    LET F1 == IF Exists(W.files, tmpfile) THEN Remove(W.files, tmpfile) ELSE W.files
        W1 == walk([W EXCEPT !.files = F1], SortNames(DOMAIN F1))
    IN  Then(W1, LAMBDA V :
          IF Len(V.segments) > 0
          THEN resetLastSegment([V EXCEPT !.firstIndex = V.segments[1].offset + 1])
          ELSE [V EXCEPT !.firstIndex = 1])

\* Open with valid options
Open(F, noSplit) == loadWAL(NewWAL(F, noSplit))

\* ------------------------------------------------------------------ options
\* the largest Options.Base tried
MaxBase == 38

\* Options: the Base and NoSplitSegment fields; the sizes are the bounds above
\* and the suffixes the defaults. nil marks the nil pointer passed to Open
Options(base, noSplit) == [nil |-> FALSE, Base |-> base, NoSplitSegment |-> noSplit]
NilOptions == [nil |-> TRUE, Base |-> 0, NoSplitSegment |-> FALSE]

\* DefaultOptions
DefaultOptions == Options(DefaultBase, FALSE)

\* the options passed to Open
OptionSet == {NilOptions} \cup {Options(b, n) : b \in (0 - 2)..MaxBase, n \in BOOLEAN}

\* Options.check, the Base field (lines 238-243)
check(opts) ==
    IF opts.Base < 1 THEN [opts |-> [opts EXCEPT !.Base = DefaultBase], err |-> NoErr]
    ELSE IF opts.Base < 2 \/ opts.Base > 36 THEN [opts |-> opts, err |-> ErrBase]
    ELSE [opts |-> opts, err |-> NoErr]

\* Open(path, opts), lines 246-275; segment names are those of the default base
OpenOptions(F, opts) ==
    IF ~opts.nil
    THEN LET c == check(opts)
         IN  IF c.err # NoErr THEN Fail(NewWAL(F, FALSE), c.err)
             ELSE Open(F, c.opts.NoSplitSegment)
    ELSE Open(F, DefaultOptions.NoSplitSegment)

\* ------------------------------------------------------------------ state
VARIABLES
    files,           \* the directory
    phase,           \* "down": no WAL value; "dead": the process died; "up"
    closed, segments, lastSegment, firstIndex, lastIndex, writeBuffer,
    noSplitSegment,  \* fields of WAL
    removes,         \* segments handed to the goroutines of Clean that still run
    accepted,        \* history: index -> payload of the last accepted Write
    unflushed,       \* history: indices accepted since the buffer was last written out
    durable,         \* history: indices written, flushed and then synced
    steps,           \* history: number of calls and crashes so far
    mu,              \* WAL.mu: the thread that holds it, 0 when free
    pc,              \* thread -> its position in the call it makes
    call,            \* thread -> the call it makes
    result           \* thread -> the error its last call returned

vars == <<files, phase, closed, segments, lastSegment, firstIndex, lastIndex,
          writeBuffer, noSplitSegment, removes, accepted, unflushed, durable, steps,
          mu, pc, call, result>>

\* the threads that call into one WAL value
Threads == {1, 2}

\* no call in flight
NoCall == [op |-> "none", index |-> 0, data |-> <<>>, seen |-> 0, with |-> {}]

None == <<>>

\* the WAL value of the current state
Cur ==
    [files |-> files, segments |-> segments, lastSegment |-> lastSegment,
     firstIndex |-> firstIndex, lastIndex |-> lastIndex, writeBuffer |-> writeBuffer,
     closed |-> closed, removes |-> removes, noSplitSegment |-> noSplitSegment,
     err |-> NoErr, ret |-> <<>>, truncate |-> FALSE]

\* no WAL value
NoWAL ==
    /\ closed' = FALSE
    /\ segments' = <<>>
    /\ lastSegment' = "nil"
    /\ firstIndex' = 0
    /\ lastIndex' = 0
    /\ writeBuffer' = <<>>
    /\ removes' = <<>>
    /\ noSplitSegment' = FALSE

Down == phase' = "down" /\ NoWAL
Dead == phase' = "dead" /\ NoWAL

\* the state after a call that returned W; a panic ends the process
Apply(W) ==
    /\ IF W.err = Panic
       THEN /\ files' = Gc(NewWAL(W.files, FALSE)).files
            /\ Dead
       ELSE /\ files' = Gc(W).files
            /\ phase' = "up"
            /\ closed' = W.closed
            /\ segments' = W.segments
            /\ lastSegment' = W.lastSegment
            /\ firstIndex' = W.firstIndex
            /\ lastIndex' = W.lastIndex
            /\ writeBuffer' = W.writeBuffer
            /\ removes' = W.removes
            /\ noSplitSegment' = W.noSplitSegment

\* the history keeps the indices of the log only; a panic ends the process
\* and leaves the history to the next Open
InLog(W, i) == W.err # Panic /\ W.lastIndex > 0 /\ W.firstIndex <= i /\ i <= W.lastIndex
Keep(W, acc) ==
    IF W.err = Panic THEN acc
    ELSE [i \in 1..MaxIndex |-> IF InLog(W, i) THEN acc[i] ELSE None]
KeepSet(W, S) == IF W.err = Panic THEN S ELSE {i \in S : InLog(W, i)}

Init ==
    /\ files = << >>
    /\ phase = "down"
    /\ closed = FALSE
    /\ segments = <<>>
    /\ lastSegment = "nil"
    /\ firstIndex = 0
    /\ lastIndex = 0
    /\ writeBuffer = <<>>
    /\ noSplitSegment = FALSE
    /\ removes = <<>>
    /\ accepted = [i \in 1..MaxIndex |-> None]
    /\ unflushed = {}
    /\ durable = {}
    /\ steps = 0
    /\ mu = 0
    /\ pc = [t \in Threads |-> "idle"]
    /\ call = [t \in Threads |-> NoCall]
    /\ result = [t \in Threads |-> "none"]

\* one more call counted
Tick == steps < MaxSteps /\ steps' = steps + 1

\* one more call, made while no other thread is in a call: it takes the mutex
\* on entry and has released it when it returns
Step == Tick /\ UNCHANGED <<mu, pc, call, result>>

\* Open returned W; an error leaves no WAL value
Opened(W) ==
    /\ IF W.err \in {NoErr, Panic}
       THEN Apply(W)
       ELSE files' = Gc(NewWAL(W.files, FALSE)).files /\ Down
    /\ accepted' = IF W.err = NoErr THEN Keep(W, accepted) ELSE accepted
    /\ unflushed' = {}
    /\ durable' = IF W.err = NoErr THEN KeepSet(W, durable) ELSE durable

\* Open on the directory: at start, after Close, after Open returned an error
DoOpen ==
    /\ phase = "down" \/ closed
    /\ Step
    /\ \E noSplit \in BOOLEAN : Opened(Open(files, noSplit))

\* Open by a new process after the old one died
Recover ==
    /\ phase = "dead"
    /\ Step
    /\ \E noSplit \in BOOLEAN : Opened(Open(files, noSplit))

\* a call returned W: the history keeps the indices that are still in the log
Returned(W) ==
    /\ Apply(W)
    /\ accepted' = Keep(W, accepted)
    /\ unflushed' = KeepSet(W, unflushed)
    /\ durable' = KeepSet(W, durable)

\* a call that writes the buffer out returned W
Flushed(W) ==
    /\ Apply(W)
    /\ accepted' = Keep(W, accepted)
    /\ unflushed' = IF W.err = NoErr THEN {} ELSE KeepSet(W, unflushed)
    /\ durable' = KeepSet(W, durable)

DoWrite ==
    /\ phase = "up"
    /\ Step
    /\ \E index \in 0..MaxIndex, data \in Data :
         LET Written(W) ==
                 /\ Apply(W)
                 /\ accepted' = IF W.err = NoErr
                                THEN Keep(W, [accepted EXCEPT ![index] = data])
                                ELSE Keep(W, accepted)
                 /\ unflushed' = IF W.err # NoErr THEN KeepSet(W, unflushed)
                                 ELSE IF W.writeBuffer = EncodeVarint(Len(data)) \o data
                                 THEN {index}
                                 ELSE KeepSet(W, unflushed \cup {index})
                 /\ durable' = IF W.err = NoErr THEN KeepSet(W, durable \ {index})
                               ELSE KeepSet(W, durable)
         IN  Written(Write(Cur, index, data))

\* a payload whose entry fills a segment alone: the next Write rolls over
LargeData == {<<3, 3, 3>>}

\* WAL.Write with a large payload
DoWriteLarge ==
    /\ phase = "up"
    /\ Step
    /\ \E index \in 1..MaxIndex, data \in LargeData :
         LET Written(W) ==
                 /\ Apply(W)
                 /\ accepted' = IF W.err = NoErr
                                THEN Keep(W, [accepted EXCEPT ![index] = data])
                                ELSE Keep(W, accepted)
                 /\ unflushed' = IF W.err # NoErr THEN KeepSet(W, unflushed)
                                 ELSE IF W.writeBuffer = EncodeVarint(Len(data)) \o data
                                 THEN {index}
                                 ELSE KeepSet(W, unflushed \cup {index})
                 /\ durable' = IF W.err = NoErr THEN KeepSet(W, durable \ {index})
                               ELSE KeepSet(W, durable)
         IN  Written(Write(Cur, index, data))

DoFlush ==
    /\ phase = "up"
    /\ Step
    /\ Flushed(Flush(Cur))

DoSync ==
    /\ phase = "up"
    /\ Step
    /\ LET Synced(W) ==
               /\ Apply(W)
               /\ durable' = IF W.err = NoErr
                             THEN {i \in 1..MaxIndex : InLog(W, i) /\ i \notin unflushed}
                             ELSE durable
       IN  Synced(Sync(Cur))
    /\ UNCHANGED <<accepted, unflushed>>

DoRead ==
    /\ phase = "up"
    /\ Step
    /\ \E index \in 0..MaxIndex : Returned(Read(Cur, index))

DoClean ==
    /\ phase = "up"
    /\ Step
    /\ \E index \in 0..MaxIndex : Returned(Clean(Cur, index))

DoTruncate ==
    /\ phase = "up"
    /\ Step
    /\ \E index \in 0..MaxIndex : Returned(Truncate(Cur, index))

DoReset ==
    /\ phase = "up"
    /\ Step
    /\ Returned(Reset(Cur))

DoClose ==
    /\ phase = "up"
    /\ Step
    /\ Flushed(Close(Cur))

\* the goroutine of Clean (lines 711-717) runs to its end
Goroutine ==
    /\ phase = "up"
    /\ Step
    /\ removes # <<>>
    /\ Apply(removeAll(Cur))
    /\ UNCHANGED <<accepted, unflushed, durable>>

\* what a crash can leave of a file: what was synced, what was written, or, when
\* the writes since the last sync only appended, a part of them
CrashOutcomes(f) ==
    IF f.synced = f.data THEN {f.data}
    ELSE IF Len(f.synced) <= Len(f.data) /\ SubSeq(f.data, 1, Len(f.synced)) = f.synced
    THEN {SubSeq(f.data, 1, n) : n \in Len(f.synced)..Len(f.data)}
    ELSE {f.synced, f.data}

IsIndexFile(name) == name.ext = indexSuffix

\* the directories a crash can leave: one outcome for every file
RECURSIVE CrashFiles(_, _)
CrashFiles(F, names) ==
    IF names = {} THEN {<< >>}
    ELSE LET n == CHOOSE x \in names : TRUE
         IN  {Put(g, n, IF IsIndexFile(n) THEN F[n] ELSE [data |-> d, synced |-> d]) :
                g \in CrashFiles(F, names \ {n}),
                d \in IF IsIndexFile(n) THEN {<<>>} ELSE CrashOutcomes(F[n])}

\* the process stops between two calls; the directory keeps what reached it
Crash ==
    /\ phase = "up"
    /\ Step
    /\ ~closed
    /\ files' \in CrashFiles(files, {x \in DOMAIN files : ~IsOrphan(x)})
    /\ Dead
    /\ UNCHANGED <<accepted, unflushed, durable>>

\* -------------------------------------------- a crash inside Clean or Truncate
\* the WAL values between the steps of closeRemove(W, from, to): each segment
\* is closed, then its index file is removed, then its data file
RECURSIVE removeSteps(_, _, _)
removeSteps(W, from, to) ==
    IF from > to THEN {W}
    ELSE LET c == close(W.files, W.segments[from])
             closed1 == [W EXCEPT !.files = c.files, !.segments[from] = c.seg]
             noIndex == Unlink(closed1, c.seg.indexPath)
         IN  {W, closed1, noIndex}
                 \cup removeSteps(Unlink(noIndex, c.seg.logPath), from + 1, to)

\* the WAL values between the steps of WAL.copy before its rename (lines 811-842)
copySteps(W, srcName, offset, size) ==
    LET created == Create(W.files, tmpfile)
        sized == FSync(TruncateTo(created, tmpfile, size), tmpfile)
        filled == WriteAt(sized, tmpfile, 0,
                          SubSeq(W.files[srcName].data, offset + 1, offset + size))
    IN  {[W EXCEPT !.files = F] : F \in {created, sized, filled, FSync(filled, tmpfile)}}

\* the WAL values between the steps of the split path of Clean (lines 721-746),
\* each with whether the sidecar has its name already
cleanSplitSteps(W, k, index) ==
    LET s == W.segments[k]
        cleanName == [stem |-> segmentName(index - 1), ext |-> cleanSuffix]
        start == readIndex(W.files, s, index).start
        end == readIndex(W.files, s, s.offset + s.len).end
        After(C) ==
            {[st |-> V, renamed |-> TRUE] : V \in removeSteps(C, 1, k) \cup {cleanSplit(W, k, index)}}
    IN  IF cleanSplit(W, k, index).err # NoErr THEN {}
        ELSE {[st |-> V, renamed |-> FALSE] : V \in copySteps(W, s.logPath, start, end - start)}
                 \cup After(copy(W, s.logPath, cleanName, start, end - start))

\* the WAL values between the steps of Clean(index), the call's start included
cleanSteps(W, index) ==
    LET At(segIndex) ==
            LET V == loadSegment(W, segIndex + 1)
            IN  IF V.err # NoErr THEN {}
                ELSE IF V.segments[segIndex + 1].offset = index - 1
                THEN {[st |-> U, renamed |-> TRUE] : U \in removeSteps(V, 1, segIndex)}
                ELSE IF V.noSplitSegment THEN {}
                ELSE cleanSplitSteps(V, segIndex + 1, index)
    IN  {[st |-> W, renamed |-> FALSE]} \cup
        IF index = W.firstIndex \/ checkIndex(W, index) # NoErr
           \/ searchSegmentIndex(W, index) < 0
        THEN {}
        ELSE At(searchSegmentIndex(W, index))

\* the process stops inside Clean; the directory keeps what reached it
CrashInClean ==
    /\ phase = "up"
    /\ Step
    /\ ~closed
    /\ \E index \in 1..MaxIndex : \E S \in cleanSteps(Cur, index) :
           files' \in CrashFiles(S.st.files, {x \in DOMAIN S.st.files : ~IsOrphan(x)})
    /\ Dead
    /\ UNCHANGED <<accepted, unflushed, durable>>

\* the WAL values between the steps of the split path of Truncate (lines 779-798)
truncateSplitSteps(W, k, index) ==
    LET s == W.segments[k]
        truncateName == [stem |-> segmentName(s.offset), ext |-> truncateSuffix]
        start == readIndex(W.files, s, s.offset + 1).start
        end == readIndex(W.files, s, index).end
        After(C) == removeSteps(C, k, Len(C.segments)) \cup {truncateSplit(W, k, index)}
    IN  IF truncateSplit(W, k, index).err # NoErr THEN {}
        ELSE copySteps(W, s.logPath, start, end - start)
                 \cup After(copy(W, s.logPath, truncateName, start, end - start))

\* the WAL values between the steps of Truncate(index), the call's start included
truncateSteps(W, index) ==
    LET Next2(V, segIndex) ==
            LET U == loadSegment(V, segIndex + 2)
            IN  IF U.err # NoErr THEN {}
                ELSE IF U.segments[segIndex + 2].offset = index
                THEN removeSteps(U, segIndex + 2, Len(U.segments))
                ELSE truncateSplitSteps(U, segIndex + 1, index)
        At(segIndex) ==
            LET V == loadSegment(W, segIndex + 1)
            IN  IF V.err # NoErr THEN {}
                ELSE IF Len(V.segments) > segIndex + 1 THEN Next2(V, segIndex)
                ELSE truncateSplitSteps(V, segIndex + 1, index)
    IN  {W} \cup
        IF index = W.lastIndex \/ checkIndex(W, index) # NoErr
           \/ searchSegmentIndex(W, index) < 0
        THEN {}
        ELSE At(searchSegmentIndex(W, index))

\* the process stops inside Truncate; the directory keeps what reached it
CrashInTruncate ==
    /\ phase = "up"
    /\ Step
    /\ ~closed
    /\ \E index \in 1..MaxIndex : \E S \in truncateSteps(Cur, index) :
           files' \in CrashFiles(S.files, {x \in DOMAIN S.files : ~IsOrphan(x)})
    /\ Dead
    /\ UNCHANGED <<accepted, unflushed, durable>>

Next ==
    \/ DoOpen
    \/ DoWrite
    \/ DoFlush
    \/ DoSync
    \/ DoRead
    \/ DoClean
    \/ DoTruncate
    \/ DoReset
    \/ DoClose
    \/ Goroutine
    \/ Crash
    \/ Recover

Spec == Init /\ [][Next]_vars

\* the runs in which the process never dies and is never killed
NextCrashFree ==
    \/ DoOpen
    \/ DoWrite
    \/ DoFlush
    \/ DoSync
    \/ DoRead
    \/ DoClean
    \/ DoTruncate
    \/ DoReset
    \/ DoClose
    \/ Goroutine

SpecCrashFree == Init /\ [][NextCrashFree]_vars

\* the crash-free runs of Open, Write, Flush, Sync, Read, Clean and Truncate
NextReadWrite ==
    \/ DoOpen
    \/ DoWrite
    \/ DoFlush
    \/ DoSync
    \/ DoRead
    \/ DoClean
    \/ DoTruncate
    \/ Goroutine

SpecReadWrite == Init /\ [][NextReadWrite]_vars

\* the runs of Open, Write (with its rollovers), Flush and Sync, with crashes
NextAppend ==
    \/ DoOpen
    \/ DoWrite
    \/ DoFlush
    \/ DoSync
    \/ Crash
    \/ Recover

SpecAppend == Init /\ [][NextAppend]_vars

\* the runs of Open, Write, Flush, Sync, Clean and Close in which the process
\* may stop between two calls or inside Clean; without Truncate and Reset a
\* segment after the first starts at SegmentEntries + 1 = MaxIndex, so Clean
\* never hands segments to the goroutine of line 711 here
NextClean ==
    \/ DoOpen
    \/ DoWrite
    \/ DoFlush
    \/ DoSync
    \/ DoClean
    \/ DoClose
    \/ Crash
    \/ CrashInClean
    \/ Recover

SpecClean == Init /\ [][NextClean]_vars

\* the runs of Open, Write, Flush, Sync, Truncate and Close in which the process
\* may stop between two calls or inside Truncate
NextTruncate ==
    \/ DoOpen
    \/ DoWrite
    \/ DoWriteLarge
    \/ DoFlush
    \/ DoSync
    \/ DoTruncate
    \/ DoClose
    \/ Crash
    \/ CrashInTruncate
    \/ Recover

SpecTruncate == Init /\ [][NextTruncate]_vars

\* the crash-free runs of Open, Write, Flush, Sync, Clean and Close with small
\* and segment-filling payloads, in which a later segment holds several entries
NextNoSplit ==
    \/ DoOpen
    \/ DoWrite
    \/ DoWriteLarge
    \/ DoFlush
    \/ DoSync
    \/ DoClean
    \/ DoClose
    \/ Goroutine

SpecNoSplit == Init /\ [][NextNoSplit]_vars

\* a payload whose entry alone is longer than SegmentSize
HugeData == {[i \in 1..SegmentSize |-> 3]}

\* WAL.Write with a payload longer than a segment
DoWriteHuge ==
    /\ phase = "up"
    /\ Step
    /\ \E index \in 1..MaxIndex, data \in HugeData :
         LET Written(W) ==
                 /\ Apply(W)
                 /\ accepted' = IF W.err = NoErr
                                THEN Keep(W, [accepted EXCEPT ![index] = data])
                                ELSE Keep(W, accepted)
                 /\ unflushed' = IF W.err # NoErr THEN KeepSet(W, unflushed)
                                 ELSE IF W.writeBuffer = EncodeVarint(Len(data)) \o data
                                 THEN {index}
                                 ELSE KeepSet(W, unflushed \cup {index})
                 /\ durable' = IF W.err = NoErr THEN KeepSet(W, durable \ {index})
                               ELSE KeepSet(W, durable)
         IN  Written(Write(Cur, index, data))

\* appends with payloads of every size, Close and Open
NextSegments ==
    \/ DoOpen
    \/ DoWrite
    \/ DoWriteLarge
    \/ DoWriteHuge
    \/ DoFlush
    \/ DoSync
    \/ DoClose

SpecSegments == Init /\ [][NextSegments]_vars

\* Open with options of every kind, those that Options.check refuses included
DoOpenOptions ==
    /\ phase = "down" \/ closed
    /\ Step
    /\ \E opts \in OptionSet : Opened(OpenOptions(files, opts))

NextOptions ==
    \/ DoOpenOptions
    \/ DoWrite
    \/ DoFlush
    \/ DoClose

SpecOptions == Init /\ [][NextOptions]_vars

\* ------------------------------------------------------------------ threads
\* the checks at the head of WAL.Write (lines 471-479): the error they return
writeChecks(W, index) ==
    IF W.closed THEN ErrClosed
    ELSE IF index = 0 THEN ErrZeroIndex
    ELSE IF W.lastIndex > 0 /\ index # W.lastIndex + 1 THEN ErrOutOfOrder
    ELSE NoErr

\* WAL.Write after its checks passed (lines 479-523)
writeBody(W, index, data) ==
    LET W1 == IF W.lastIndex = 0
              THEN [W EXCEPT !.firstIndex = index, !.lastIndex = index - 1]
              ELSE W
        W2 == IF Len(W1.segments) = 0 THEN appendSegment(W1) ELSE W1
    IN  writeTail(W2, index, data)

\* calls counted in a run of the threads
MaxCalls == 5

\* a Lock that returns whoever holds the mutex
MutexIgnored == TRUE

\* w.mu is free
MutexFree == mu = 0

\* what leaves the threads alone leaves the log alone too
LogUnchanged ==
    UNCHANGED <<files, phase, closed, segments, lastSegment, firstIndex, lastIndex,
                writeBuffer, noSplitSegment, removes, accepted, unflushed, durable>>

\* the deferred w.mu.Unlock of thread t, whose call returned e; a panic ends
\* the process and every call with it
Unlock(t, e) ==
    /\ mu' = 0
    /\ pc' = IF e = Panic THEN [u \in Threads |-> "idle"] ELSE [pc EXCEPT ![t] = "idle"]
    /\ result' = [result EXCEPT ![t] = e]
    /\ call' = call

\* thread t calls Write or Read and comes to w.mu.Lock (lines 469, 653)
Invoke(t) ==
    /\ phase = "up"
    /\ pc[t] = "idle"
    /\ steps < MaxCalls
    /\ steps' = steps + 1
    /\ \E op \in {"Write", "Read"}, index \in 0..MaxIndex, data \in Data :
         /\ op = "Read" => data = <<1>>
         /\ call' = [u \in Threads |->
                       IF u = t
                       THEN [op |-> op, index |-> index, data |-> data,
                             seen |-> lastIndex,
                             with |-> {v \in Threads \ {t} : pc[v] # "idle"}]
                       ELSE IF pc[u] = "idle"
                       THEN [call[u] EXCEPT !.with = {}]
                       ELSE [call[u] EXCEPT !.with = @ \cup {t}]]
    /\ pc' = [pc EXCEPT ![t] = "waiting"]
    /\ result' = [result EXCEPT ![t] = "pending"]
    /\ mu' = mu
    /\ LogUnchanged

\* w.mu.Lock returns in thread t
Lock(t) ==
    /\ pc[t] = "waiting"
    /\ MutexFree
    /\ mu' = t
    /\ pc' = [pc EXCEPT ![t] = "locked"]
    /\ UNCHANGED <<call, result, steps>>
    /\ LogUnchanged

\* thread t runs the checks of Write (lines 471-479) and returns on an error
WriteChecks(t) ==
    /\ pc[t] = "locked"
    /\ call[t].op = "Write"
    /\ LET e == writeChecks(Cur, call[t].index)
       IN  IF e = NoErr
           THEN /\ pc' = [pc EXCEPT ![t] = "checked"]
                /\ UNCHANGED <<mu, call, result>>
           ELSE Unlock(t, e)
    /\ UNCHANGED steps
    /\ LogUnchanged

\* thread t runs the rest of Write (lines 479-523) and returns
WriteBody(t) ==
    /\ pc[t] = "checked"
    /\ LET index == call[t].index
           data == call[t].data
           W == writeBody(Cur, index, data)
       IN  /\ Apply(W)
           /\ accepted' = IF W.err = NoErr
                          THEN Keep(W, [accepted EXCEPT ![index] = data])
                          ELSE Keep(W, accepted)
           /\ unflushed' = IF W.err # NoErr THEN KeepSet(W, unflushed)
                           ELSE IF W.writeBuffer = EncodeVarint(Len(data)) \o data
                           THEN {index}
                           ELSE KeepSet(W, unflushed \cup {index})
           /\ durable' = IF W.err = NoErr THEN KeepSet(W, durable \ {index})
                         ELSE KeepSet(W, durable)
           /\ Unlock(t, W.err)
    /\ UNCHANGED steps

\* thread t runs Read under the mutex and returns
ReadLocked(t) ==
    /\ pc[t] = "locked"
    /\ call[t].op = "Read"
    /\ LET W == Read(Cur, call[t].index)
       IN  Returned(W) /\ Unlock(t, W.err)
    /\ UNCHANGED steps

NextThreads ==
    \/ DoOpen
    \/ \E t \in Threads : Invoke(t)
    \/ \E t \in Threads : Lock(t)
    \/ \E t \in Threads : WriteChecks(t)
    \/ \E t \in Threads : WriteBody(t)
    \/ \E t \in Threads : ReadLocked(t)

SpecThreads == Init /\ [][NextThreads]_vars

\* every open handle refers to a file
HandlesValid ==
    \A i \in 1..Len(segments) :
        /\ segments[i].logFile # "nil" => Exists(files, segments[i].logIno)
        /\ segments[i].indexFile => Exists(files, segments[i].indexIno)

\* ------------------------------------------------------------------ claims
\* an open log
Up == phase = "up" /\ ~closed

\* C1: in a crash-free run of Open, Write, Flush, Sync, Read, Clean and
\* Truncate, Read(i) of every index i of the log whose entry has been flushed
\* returns the payload of the last accepted Write(i, .) and no other
C1_ReadReturnsWritten ==
    Up => \A i \in 1..MaxIndex :
              (InLog(Cur, i) /\ i \notin unflushed) =>
                  /\ Read(Cur, i).err = NoErr
                  /\ Read(Cur, i).ret = accepted[i]

\* C2 as stated: on an open log with last_index > 0, Write(index, .) with
\* index # last_index + 1 returns OutOfOrder and changes neither the indices,
\* the segment list, the write buffer nor the files
C2_AnyIndexOutOfOrder ==
    (Up /\ lastIndex > 0) =>
        \A index \in 0..(MaxIndex + 1), data \in Data :
            index # lastIndex + 1 =>
                Write(Cur, index, data) = [Cur EXCEPT !.err = ErrOutOfOrder]

\* C2, amended: on an open log with last_index > 0, Write(index, .) with
\* index >= 1 and index # last_index + 1 returns OutOfOrder and changes nothing,
\* Write(0, .) returns ZeroIndex and changes nothing, and every accepted Write
\* carries index = last_index + 1 and makes it the last index
C2_OutOfOrderRejected ==
    (Up /\ lastIndex > 0) =>
        \A index \in 0..(MaxIndex + 1), data \in Data :
            /\ (index >= 1 /\ index # lastIndex + 1) =>
                   Write(Cur, index, data) = [Cur EXCEPT !.err = ErrOutOfOrder]
            /\ index = 0 => Write(Cur, index, data) = [Cur EXCEPT !.err = ErrZeroIndex]
            /\ Write(Cur, index, data).err = NoErr =>
                   /\ index = lastIndex + 1
                   /\ Write(Cur, index, data).lastIndex = index
                   /\ Write(Cur, index, data).firstIndex = firstIndex

\* a non-empty log with buffered entries and several segments rejects an index
C2_Witness ==
    /\ Up
    /\ lastIndex > 0
    /\ writeBuffer # <<>>
    /\ Len(segments) > 1
    /\ \E index \in 1..(MaxIndex + 1) :
           /\ index # lastIndex + 1
           /\ Write(Cur, index, <<1>>).err = ErrOutOfOrder

\* C3: on an open empty log (last_index = 0) Write(k, .) is accepted for every
\* k >= 1, then first_index = last_index = k and the first segment has offset
\* k - 1, and a following Write(j, .) with j >= 1, j # k + 1 returns OutOfOrder
C3_FirstWriteAnyIndex ==
    (Up /\ lastIndex = 0) =>
        \A k \in 1..MaxIndex, data \in Data :
            LET W == Write(Cur, k, data)
            IN  /\ W.err = NoErr
                /\ W.firstIndex = k
                /\ W.lastIndex = k
                /\ W.segments[1].offset = k - 1
                /\ \A j \in 1..(MaxIndex + 1) :
                       j # k + 1 => Write(W, j, data).err = ErrOutOfOrder

\* C4: in split mode, for every k of the log, when Clean(k) returns nil
\* FirstIndex() is k and Read(j) returns OutOfRange for every j < k
C4_CleanSetsFirstIndex ==
    (Up /\ ~noSplitSegment) =>
        \A k \in 1..MaxIndex :
            LET W == Clean(Cur, k)
            IN  (InLog(Cur, k) /\ W.err = NoErr) =>
                    /\ FirstIndex(W).err = NoErr
                    /\ FirstIndex(W).ret = k
                    /\ \A j \in 0..(k - 1) : Read(W, j).err = ErrOutOfRange

\* a log in split mode where Clean returns nil both for an index inside a
\* segment and for the first index of a later segment
C4_Witness ==
    /\ Up
    /\ ~noSplitSegment
    /\ Len(segments) > 1
    /\ \E k \in (firstIndex + 1)..lastIndex :
           /\ segments[searchSegmentIndex(Cur, k) + 1].offset # k - 1
           /\ Clean(Cur, k).err = NoErr
           /\ Clean(Cur, k).firstIndex = k
    /\ \E k \in (firstIndex + 1)..lastIndex :
           /\ segments[searchSegmentIndex(Cur, k) + 1].offset = k - 1
           /\ Clean(Cur, k).err = NoErr
           /\ Clean(Cur, k).firstIndex = k

\* Read(j) once the buffer is written out
FlushedRead(W, j) == Then(Flush(W), LAMBDA V : Read(V, j))

\* C5: when Clean(k) returns nil, last_index is unchanged and every j with
\* k <= j <= last_index that was readable (once flushed) before the call is
\* readable (once flushed) after it with the same payload
C5_CleanKeepsRest ==
    Up => \A k \in 1..MaxIndex :
              LET W == Clean(Cur, k)
              IN  (InLog(Cur, k) /\ W.err = NoErr) =>
                      /\ W.lastIndex = lastIndex
                      /\ \A j \in k..lastIndex :
                             FlushedRead(Cur, j).err = NoErr =>
                                 /\ FlushedRead(W, j).err = NoErr
                                 /\ FlushedRead(W, j).ret = FlushedRead(Cur, j).ret

\* C6: for every k of the log, when Truncate(k) returns nil LastIndex() is k,
\* Read(j) returns OutOfRange and IsExist(j) is false for every j > k
C6_TruncateSetsLastIndex ==
    Up => \A k \in 1..MaxIndex :
              LET W == Truncate(Cur, k)
              IN  (InLog(Cur, k) /\ W.err = NoErr) =>
                      /\ LastIndex(W).err = NoErr
                      /\ LastIndex(W).ret = k
                      /\ \A j \in (k + 1)..(MaxIndex + 1) :
                             /\ Read(W, j).err = ErrOutOfRange
                             /\ IsExist(W, j).err = NoErr
                             /\ IsExist(W, j).ret = FALSE

\* C7: when Truncate(k) returns nil, first_index is unchanged and Read(j)
\* returns the same payload as before for every j with first_index <= j <= k
C7_TruncateKeepsRest ==
    Up => \A k \in 1..MaxIndex :
              LET W == Truncate(Cur, k)
              IN  (InLog(Cur, k) /\ W.err = NoErr) =>
                      /\ W.firstIndex = firstIndex
                      /\ \A j \in firstIndex..k :
                             Read(Cur, j).err = NoErr =>
                                 /\ Read(W, j).err = NoErr
                                 /\ Read(W, j).ret = Read(Cur, j).ret

\* C8: when Truncate(k) returns nil, Write(k + 1, d) returns nil, Flush returns
\* nil and Read(k + 1) then returns d, not an entry the Truncate discarded
C8_AppendAfterTruncate ==
    Up => \A k \in 1..MaxIndex, d \in Data :
              LET T == Truncate(Cur, k)
                  F == Then(Write(T, k + 1, d), Flush)
              IN  (InLog(Cur, k) /\ T.err = NoErr) =>
                      /\ F.err = NoErr
                      /\ Read(F, k + 1).err = NoErr
                      /\ Read(F, k + 1).ret = d

\* Open, with the same options, on the directory a call left
Reopen(W) == Open(Gc(W).files, W.noSplitSegment)

\* C9: in a crash-free run, Close returns nil and Open on the same directory
\* with the same options returns a log with the same first_index, the same
\* last_index and, for every index of the log, the payload it had (once flushed)
C9_CloseOpenRoundTrip ==
    Up => LET C == Close(Cur)
              O == Reopen(C)
          IN  /\ C.err = NoErr
              /\ O.err = NoErr
              /\ O.firstIndex = firstIndex
              /\ O.lastIndex = lastIndex
              /\ \A i \in 1..MaxIndex :
                     (InLog(Cur, i) /\ FlushedRead(Cur, i).err = NoErr) =>
                         /\ Read(O, i).err = NoErr
                         /\ Read(O, i).ret = FlushedRead(Cur, i).ret

\* the indices of the segments before the tail
NonTail == {i \in 1..MaxIndex : InLog(Cur, i) /\ segments # <<>> /\ i <= Last(Cur).offset}

\* C10: once Write(i, d), Flush and Sync have returned nil, and for every i of
\* a segment before the tail, whatever a crash between two calls leaves of the
\* directory, Open returns a log that holds i and Read(i) returns d
C10_DurableAfterSync ==
    Up => \A i \in durable \cup NonTail :
              \A F \in CrashFiles(files, {x \in DOMAIN files : ~IsOrphan(x)}) :
                  LET O == Open(F, noSplitSegment)
                  IN  /\ O.err = NoErr
                      /\ InLog(O, i)
                      /\ Read(O, i).err = NoErr
                      /\ Read(O, i).ret = accepted[i]

\* the directories a crash of the current state can leave
CrashDirs == CrashFiles(files, {x \in DOMAIN files : ~IsOrphan(x)})

\* the number of entries written whole at the start of a data file
RECURSIVE CompleteEntries(_)
CompleteEntries(data) ==
    IF data = <<>> THEN 0
    ELSE LET dv == DecodeVarint(data)
             n == dv.n + dv.v
         IN  IF dv.n = 0 \/ n > Len(data) THEN 0
             ELSE 1 + CompleteEntries(SubSeq(data, n + 1, Len(data)))

\* the data files of a directory, and the index of the last entry written whole
LogNames(F) == {x \in DOMAIN F : x.ext = logSuffix /\ Len(x.stem) = nameLength}
LastWritten(F) ==
    IF LogNames(F) = {} THEN 0
    ELSE LET tail == CHOOSE x \in LogNames(F) :
                         \A y \in LogNames(F) : ~SeqLess(x.stem, y.stem)
         IN  parseSegmentName(tail.stem) + CompleteEntries(F[tail].data)

\* C11: whatever a crash leaves of the directory in a run of Open, Write, Flush
\* and Sync (a torn last entry, an empty new tail), Open returns nil, last_index
\* is the index of the last entry written whole, and every index from
\* first_index to last_index reads back with the payload written
C11_RecoveryOfAppends ==
    Up => \A F \in CrashDirs :
              LET O == Open(F, noSplitSegment)
              IN  /\ O.err = NoErr
                  /\ O.lastIndex = LastWritten(F)
                  /\ O.firstIndex <= O.lastIndex + 1
                  /\ \A i \in 1..MaxIndex :
                         InLog(O, i) => /\ Read(O, i).err = NoErr
                                        /\ Read(O, i).ret = accepted[i]

\* nothing of the log is in the write buffer or in a data file that is not synced
Settled ==
    /\ writeBuffer = <<>>
    /\ \A x \in DOMAIN files : IsIndexFile(x) \/ files[x].synced = files[x].data

\* C12: when the process stops at any step of Clean(k), Open returns nil with
\* last_index as before, first_index as before when the sidecar had not been
\* renamed and between the old first_index and k otherwise, and every index
\* from first_index to last_index reads back with the payload it had
C12_CleanCrashAtomic ==
    (Up /\ ~noSplitSegment /\ Settled) =>
        \A k \in 1..MaxIndex : \A S \in cleanSteps(Cur, k) :
            InLog(Cur, k) =>
                \A F \in CrashFiles(S.st.files, {x \in DOMAIN S.st.files : ~IsOrphan(x)}) :
                    LET O == Open(F, noSplitSegment)
                    IN  /\ O.err = NoErr
                        /\ O.lastIndex = lastIndex
                        /\ O.firstIndex >= firstIndex /\ O.firstIndex <= k
                        /\ ~S.renamed => O.firstIndex = firstIndex
                        /\ \A i \in 1..MaxIndex :
                               (InLog(O, i) /\ Read(Cur, i).err = NoErr) =>
                                   /\ Read(O, i).err = NoErr
                                   /\ Read(O, i).ret = Read(Cur, i).ret


\* C13: if the process stops at any step of Truncate(k) on a log whose data is
\* flushed and synced, the next Open succeeds, first_index is unchanged, the new
\* last_index is the old one or k, and every entry Open shows reads as before
C13_TruncateCrashAtomic ==
    (Up /\ Settled) =>
        \A k \in 1..MaxIndex : \A S \in truncateSteps(Cur, k) :
            InLog(Cur, k) =>
                \A F \in CrashFiles(S.files, {x \in DOMAIN S.files : ~IsOrphan(x)}) :
                    LET O == Open(F, noSplitSegment)
                    IN  /\ O.err = NoErr
                        /\ O.firstIndex = firstIndex
                        /\ O.lastIndex \in {lastIndex, k}
                        /\ \A i \in 1..MaxIndex :
                               (InLog(O, i) /\ Read(Cur, i).err = NoErr) =>
                                   /\ Read(O, i).err = NoErr
                                   /\ Read(O, i).ret = Read(Cur, i).ret


\* the sidecars of one kind in a directory, and the canonical segment files
Sidecars(F, suffix) == {x \in DOMAIN F : x.ext = suffix /\ Len(x.stem) = nameLength}
SegmentFiles(F) ==
    {x \in DOMAIN F : x.ext \in {logSuffix, indexSuffix} /\ Len(x.stem) = nameLength}
HasSegment(W, offset) == \E j \in 1..Len(W.segments) : W.segments[j].offset = offset

\* what Open made of the head-trim sidecar x of directory F
CleanSidecarRecovered(F, x, O) ==
    LET N == parseSegmentName(x.stem)
        After == Gc(O).files
    IN  /\ \A y \in SegmentFiles(After) : parseSegmentName(y.stem) >= N
        /\ x \notin DOMAIN After
        /\ logName(N) \in DOMAIN After
        /\ After[logName(N)].data = F[x].data
        /\ O.firstIndex = N + 1
        /\ O.segments[1].offset = N
        /\ \A y \in DOMAIN F :
               (y.ext = logSuffix /\ Len(y.stem) = nameLength
                    /\ parseSegmentName(y.stem) > N) =>
                   /\ y \in DOMAIN After
                   /\ After[y].data = F[y].data
                   /\ HasSegment(O, parseSegmentName(y.stem))

TruncSidecarRecovered(F, x, O) ==
    LET N == parseSegmentName(x.stem)
        After == Gc(O).files
    IN  /\ x \notin DOMAIN After
        /\ logName(N) \in DOMAIN After
        /\ After[logName(N)].data = F[x].data
        /\ \A y \in SegmentFiles(After) : parseSegmentName(y.stem) <= N
        /\ O.segments # <<>>
        /\ O.segments[Len(O.segments)].offset = N
        /\ O.lastSegment = "last"
        /\ O.lastIndex = N + CompleteEntries(F[x].data)

\* C15: when Open finds <N>.log.trunc it returns a log in which segment N holds
\* the sidecar's content and is the tail, no segment file above N is left, and
\* last_index is N plus the number of complete entries of the sidecar
C15_TruncSidecarRecovery ==
    \A x \in Sidecars(files, truncateSuffix) : \A noSplit \in BOOLEAN :
        LET O == Open(files, noSplit)
        IN  O.err = NoErr /\ TruncSidecarRecovered(files, x, O)


\* the call that returned R failed with e and left the log W as it was
Refused(R, W, e) == R.err = e /\ [R EXCEPT !.err = W.err, !.ret = W.ret] = W

\* C16: after Close has returned, every operation returns the Closed error for
\* every argument and changes no field of the log and no file
C16_ClosedRefusesAll ==
    (phase = "up" /\ closed) =>
        /\ \A index \in 0..MaxIndex : \A data \in Data :
               Refused(Write(Cur, index, data), Cur, ErrClosed)
        /\ Refused(Flush(Cur), Cur, ErrClosed)
        /\ Refused(Sync(Cur), Cur, ErrClosed)
        /\ Refused(FirstIndex(Cur), Cur, ErrClosed)
        /\ Refused(LastIndex(Cur), Cur, ErrClosed)
        /\ Refused(Reset(Cur), Cur, ErrClosed)
        /\ \A index \in 0..MaxIndex :
               /\ Refused(Read(Cur, index), Cur, ErrClosed)
               /\ Refused(IsExist(Cur, index), Cur, ErrClosed)
               /\ Refused(Clean(Cur, index), Cur, ErrClosed)
               /\ Refused(Truncate(Cur, index), Cur, ErrClosed)


\* C17: in a crash-free run Close on an open log returns nil and marks the log
\* closed
C17_CloseSucceeds ==
    Up => Close(Cur).err = NoErr /\ Close(Cur).closed


\* index is not one of first_index .. last_index
Outside(index) == index < firstIndex \/ index > lastIndex

\* C18: on an open log Read, Clean and Truncate of an index outside
\* first_index .. last_index return OutOfRange and change no field of the log
\* and no file
C18_OutOfRangeRefused ==
    Up => \A index \in 0..(MaxIndex + 1) :
              Outside(index) =>
                  /\ Refused(Read(Cur, index), Cur, ErrOutOfRange)
                  /\ Refused(Clean(Cur, index), Cur, ErrOutOfRange)
                  /\ Refused(Truncate(Cur, index), Cur, ErrOutOfRange)


\* the log a call finds after the call that returned W
NextCall(W) == [W EXCEPT !.err = NoErr, !.ret = <<>>]

\* a second call with the same argument returns as the first did and leaves
\* the log the first call left; A is the first call's result, B the second's
SameAgain(A, B) ==
    A.err # Panic => (B.err = A.err /\ NextCall(B) = NextCall(A))

\* C19: on an open log Clean(first_index), Truncate(last_index) and Flush with
\* an empty write buffer return nil and change nothing, and a second Clean(k)
\* or Truncate(k) leaves the log the first one left
C19_Idempotence ==
    Up => /\ Refused(Clean(Cur, firstIndex), Cur, NoErr)
          /\ Refused(Truncate(Cur, lastIndex), Cur, NoErr)
          /\ (writeBuffer = <<>> => Refused(Flush(Cur), Cur, NoErr))
          /\ \A k \in 0..MaxIndex :
                 /\ SameAgain(Clean(Cur, k), Clean(NextCall(Clean(Cur, k)), k))
                 /\ SameAgain(Truncate(Cur, k), Truncate(NextCall(Truncate(Cur, k)), k))


\* Read(i) on W returns the payload that was accepted for i
ReadsAccepted(W, i) == Read(W, i).err = NoErr /\ Read(W, i).ret = accepted[i]

\* the accepted entries of the log whose bytes are only in the write buffer
Buffered == {i \in unflushed : InLog(Cur, i)}

\* a Write that returned W rolled the segment over
RolledOver(W) == W.err = NoErr /\ Len(W.segments) > Len(segments)

\* C20: Read of an entry whose bytes are only in the write buffer returns an
\* error and no payload; after the next successful Flush, or after a later Write
\* rolled the segment over, Read returns the accepted payload
C20_Visibility ==
    Up => /\ \A i \in Buffered : Read(Cur, i).err \notin {NoErr, Panic}
          /\ Flush(Cur).err = NoErr =>
                 \A i \in Buffered : ReadsAccepted(Flush(Cur), i)
          /\ \A index \in 1..MaxIndex : \A data \in Data :
                 RolledOver(Write(Cur, index, data)) =>
                     \A i \in Buffered : ReadsAccepted(Write(Cur, index, data), i)


\* the log R that Reset returned is empty and holds nothing from before: no
\* segment file is left and a first entry written to it is read back
FreshLog(R) ==
    /\ R.firstIndex = 1 /\ R.lastIndex = 0 /\ R.segments = <<>>
    /\ {x \in DOMAIN Gc(R).files : isSegmentFile(x)} = {}
    /\ \A k \in 1..MaxIndex : \A d \in Data :
           LET F == Flush(Write(R, k, d))
           IN  F.err = NoErr /\ Read(F, k).err = NoErr /\ Read(F, k).ret = d

\* C21: after Reset returned nil, first_index = 1, last_index = 0, the segment
\* list and the directory hold no segment, and Write(k, d); Flush; Read(k)
\* returns d for every k >= 1 and d
C21_ResetForgets ==
    Up => (Reset(Cur).err = NoErr => FreshLog(Reset(Cur)))


\* the segment of W that holds index k, and k is not its first entry
SegmentOf(W, k) == W.segments[searchSegmentIndex(W, k) + 1]
StrictlyInside(W, k) == InLog(W, k) /\ SegmentOf(W, k).offset + 1 < k

\* Clean(k) returned C on the log W in NoSplitSegment mode, k inside segment s
NoSplitCleaned(W, k, C) ==
    LET s == SegmentOf(W, k)
        Done == Gc(removeAll(C)).files
    IN  /\ C.err = NoErr
        /\ C.firstIndex = s.offset + 1
        /\ C.lastIndex = W.lastIndex
        /\ \A j \in 0..s.offset : Read(C, j).err = ErrOutOfRange
        /\ \A j \in (s.offset + 1)..W.lastIndex :
               Read(W, j).err = NoErr =>
                   (Read(C, j).err = NoErr /\ Read(C, j).ret = Read(W, j).ret)
        /\ \A x \in DOMAIN C.files : x.ext \notin {cleanSuffix, truncateSuffix} /\ x # tmpfile
        /\ \A x \in SegmentFiles(Gc(W).files) :
               x \in DOMAIN Done <=> parseSegmentName(x.stem) >= s.offset

\* C22: with NoSplitSegment, Clean(k) for k strictly inside segment s returns
\* nil, first_index becomes s.offset + 1, last_index stays, Read is OutOfRange
\* up to s.offset and unchanged above, only the segments before s lose their
\* files, and no sidecar or scratch file appears
C22_NoSplitClean ==
    (Up /\ noSplitSegment) =>
        \A k \in 1..MaxIndex :
            StrictlyInside(Cur, k) => NoSplitCleaned(Cur, k, Clean(Cur, k))

\* a NoSplitSegment log with entry k inside its second segment, cleaned at k
C22_Witness ==
    /\ Up /\ noSplitSegment
    /\ \E k \in 1..MaxIndex :
           /\ StrictlyInside(Cur, k)
           /\ searchSegmentIndex(Cur, k) > 0
           /\ Clean(Cur, k).removes # <<>>


\* no segment handed to the goroutine of Clean shares a file with the list
Detached(W) ==
    \A i \in 1..Len(W.removes) : \A j \in 1..Len(W.segments) :
        /\ W.removes[i].logPath # W.segments[j].logPath
        /\ W.removes[i].indexPath # W.segments[j].indexPath

\* the goroutine ran on W to its end and gave G: the log and its reads are as
\* they were, only the detached segments are gone
Untouched(W, G) ==
    /\ [G EXCEPT !.files = W.files, !.removes = W.removes] = W
    /\ \A j \in 1..Len(W.segments) : \A x \in {W.segments[j].logPath, W.segments[j].indexPath} :
           x \in DOMAIN W.files => (x \in DOMAIN G.files /\ G.files[x] = W.files[x])
    /\ \A i \in 0..MaxIndex :
           Read(G, i).err = Read(W, i).err /\ Read(G, i).ret = Read(W, i).ret

\* C23: the removal started by Clean with NoSplitSegment works on segments that
\* are not in the segment list and changes nothing a later call uses, and Close
\* and Reset return only after every outstanding removal has finished
C23_AsyncRemoval ==
    Up => /\ Detached(Cur)
          /\ Untouched(Cur, removeAll(Cur))
          /\ Close(Cur).err # Panic => Close(Cur).removes = <<>>
          /\ Reset(Cur).err # Panic => Reset(Cur).removes = <<>>

\* segments are waiting for the goroutine while the log is in use
C23_Witness == Up /\ removes # <<>> /\ lastIndex > 0


\* thread t is between w.mu.Lock and the deferred w.mu.Unlock
InCall(t) == pc[t] \in {"locked", "checked"}

\* the calls of t and u that returned last overlapped, and both were
\* Write(last_index + 1, .) on the same non-empty log
Raced(t, u) ==
    /\ t # u
    /\ pc[t] = "idle" /\ pc[u] = "idle"
    /\ result[t] \notin {"none", "pending"} /\ result[u] \notin {"none", "pending"}
    /\ call[t].op = "Write" /\ call[u].op = "Write"
    /\ u \in call[t].with \/ t \in call[u].with
    /\ call[t].seen > 0 /\ call[u].seen = call[t].seen
    /\ call[t].index = call[t].seen + 1 /\ call[u].index = call[t].index

\* C24: calls made concurrently by several threads are serialized by w.mu: at
\* most one thread is between Lock and Unlock and it is the holder of the mutex;
\* the state a call checked is the state its body runs in, so that the call is
\* WAL.Write applied whole at one point of a sequential order; and of two
\* overlapping Write(last_index + 1, .) on a non-empty log one returns nil and
\* the other OutOfOrder
C24_Serialized ==
    /\ \A t \in Threads : InCall(t) <=> mu = t
    /\ \A t \in Threads : pc[t] = "checked" =>
          /\ writeChecks(Cur, call[t].index) = NoErr
          /\ Write(Cur, call[t].index, call[t].data)
                = writeBody(Cur, call[t].index, call[t].data)
    /\ \A t \in Threads : (pc[t] = "locked" /\ call[t].op = "Write"
                           /\ writeChecks(Cur, call[t].index) # NoErr) =>
          Write(Cur, call[t].index, call[t].data)
              = Fail(Cur, writeChecks(Cur, call[t].index))
    /\ \A t, u \in Threads :
          Raced(t, u) => {result[t], result[u]} = {NoErr, ErrOutOfOrder}

\* two overlapping Write(last_index + 1, .) have returned, the first nil
C24_Witness ==
    \E t, u \in Threads :
        Raced(t, u) /\ result[t] = NoErr /\ result[u] = ErrOutOfOrder


\* the indices that WAL.IsExist reports
Held == {i \in 0..(MaxIndex + 1) : IsExist(Cur, i).ret}

\* C25: in every state of an open log first_index >= 1 and
\* first_index <= last_index + 1, and first_index = last_index + 1 exactly
\* when the log holds no entry
C25_IndexRange ==
    Up => /\ firstIndex >= 1
          /\ firstIndex <= lastIndex + 1
          /\ firstIndex = lastIndex + 1 <=> Held = {}

\* an open log that holds entries after its head was cleaned
C25_Witness == Up /\ firstIndex > 1 /\ Held # {}


\* the entries written whole in the data file of segment s
EntriesOf(W, s) ==
    IF Exists(W.files, s.logPath) THEN CompleteEntries(W.files[s.logPath].data) ELSE 0

\* C26: between calls the segment list is sorted by strictly increasing offset
\* and adjacent segments are contiguous: the offset of the next one is the
\* offset of the previous one plus the number of its entries; for every
\* payload size, one longer than SegmentSize included
C26_SegmentsContiguous ==
    Up => \A i \in 1..(Len(segments) - 1) :
              /\ segments[i].offset < segments[i + 1].offset
              /\ segments[i + 1].offset = segments[i].offset + EntriesOf(Cur, segments[i])


\* C27: whenever the segment list is not empty between calls,
\* segments[0].offset = first_index - 1, the tail used for writing is the
\* last element of the list and its data file is open for writing, and
\* tail.offset + tail.len = last_index
C27_HeadAndTail ==
    (Up /\ segments # <<>>) =>
        /\ segments[1].offset = firstIndex - 1
        /\ lastSegment = "last"
        /\ Last(Cur).logFile = "rw"
        /\ Last(Cur).offset + Last(Cur).len = lastIndex


\* no sidecar and no scratch file in directory F
NoScratch(F) ==
    /\ Sidecars(F, cleanSuffix) = {}
    /\ Sidecars(F, truncateSuffix) = {}
    /\ ~Exists(F, tmpfile)

\* a scratch file left behind by a process that died inside WAL.copy
StaleTmp == [data |-> <<1, 1>>, synced |-> <<1, 1>>]

\* C28: at rest the directory holds at most one .trunc and at most one .clean
\* sidecar; after a Clean or a Truncate that returns nil, and after an Open
\* that returns nil, it holds none and no wal.tmp; and Open on a directory
\* with a stale wal.tmp returns the log it returns without it
C28_SidecarsAtRest ==
    /\ Cardinality(Sidecars(files, cleanSuffix)) <= 1
    /\ Cardinality(Sidecars(files, truncateSuffix)) <= 1
    /\ Up => \A index \in 0..MaxIndex :
                 /\ Clean(Cur, index).err = NoErr => NoScratch(Gc(Clean(Cur, index)).files)
                 /\ Truncate(Cur, index).err = NoErr
                        => NoScratch(Gc(Truncate(Cur, index)).files)
    /\ phase # "up" => \A noSplit \in BOOLEAN :
          LET Bare == Del(files, tmpfile)
              O == Open(Bare, noSplit)
          IN  /\ Open(Put(Bare, tmpfile, StaleTmp), noSplit) = O
              /\ Open(files, noSplit) = O
              /\ O.err = NoErr => NoScratch(Gc(O).files)

\* a process died inside Clean and left the scratch file or the sidecar, and
\* Open returns nil on what it left
C28_Witness ==
    /\ phase = "dead"
    /\ Exists(files, tmpfile) \/ Sidecars(files, cleanSuffix) # {}
    /\ Open(files, FALSE).err = NoErr


\* no data file or sidecar of directory F holds an entry
NoEntry(F) ==
    \A x \in DOMAIN F :
        x.ext \in {logSuffix, cleanSuffix, truncateSuffix} => CompleteEntries(F[x].data) = 0

\* what the accessors return on an empty log
EmptyAccessors(W) ==
    /\ FirstIndex(W).err = NoErr /\ FirstIndex(W).ret = 1
    /\ LastIndex(W).err = NoErr /\ LastIndex(W).ret = 0
    /\ \A i \in 0..(MaxIndex + 1) : IsExist(W, i).err = NoErr /\ ~IsExist(W, i).ret

\* C29: whenever the log holds no entry (after Open on an empty directory or
\* on one left with only empty segments, after Reset), FirstIndex returns 1,
\* LastIndex returns 0 and IsExist returns false for every index
C29_EmptyAccessors ==
    /\ Up => (Reset(Cur).err = NoErr => EmptyAccessors(Reset(Cur)))
    /\ (~Up /\ NoEntry(files)) =>
          \A noSplit \in BOOLEAN :
              Open(files, noSplit).err = NoErr => EmptyAccessors(Open(files, noSplit))


\* C30: Write checks its preconditions in a fixed order with distinct errors:
\* on a closed log it returns Closed whatever the index; otherwise index 0
\* returns ZeroIndex whatever last_index is; otherwise an index other than
\* last_index + 1 on a log with last_index > 0 returns OutOfOrder; and in the
\* three cases nothing changes
C30_WritePreconditions ==
    phase = "up" =>
        \A index \in 0..(MaxIndex + 1), data \in Data :
            LET R == Write(Cur, index, data)
            IN  /\ closed => Refused(R, Cur, ErrClosed)
                /\ (~closed /\ index = 0) => Refused(R, Cur, ErrZeroIndex)
                /\ (~closed /\ index # 0 /\ lastIndex > 0 /\ index # lastIndex + 1)
                       => Refused(R, Cur, ErrOutOfOrder)

\* a closed log that held entries: Write(0, .) meets the closed flag first
C30_Witness ==
    /\ phase = "up" /\ closed /\ lastIndex > 0
    /\ Write(Cur, 0, <<1>>).err = ErrClosed


\* C31: Open returns the Base error and no log whenever the Base option is set
\* (not the zero value) to a value outside 2..36, and never returns the Base
\* error for a Base inside 2..36, for a Base left unset or for nil options
C31_BaseError ==
    (phase = "down" \/ closed) =>
        \A opts \in OptionSet :
            LET O == OpenOptions(files, opts)
                Set == ~opts.nil /\ opts.Base # 0
            IN  /\ (Set /\ opts.Base \notin 2..36) => O.err = ErrBase
                /\ O.err = ErrBase => (Set /\ opts.Base \notin 2..36)


\* the bytes of every file of the directory of W
Bytes(W) == [x \in DOMAIN Gc(W).files |-> Gc(W).files[x].data]

\* what Read returns for index k
Payload(W, k) == <<Read(W, k).err, Read(W, k).ret>>

\* C32: Read is read-only with respect to later writes: for every state and
\* every in-range j, Write(i, d); Read(j); Flush leaves the same data files,
\* index slots and readable payloads as Write(i, d); Flush
C32_ReadThenFlush ==
    Up => \A i \in 1..MaxIndex, d \in Data :
              LET A == Write(Cur, i, d)
              IN  A.err = NoErr =>
                      \A j \in 1..MaxIndex :
                          (checkIndex(A, j) = NoErr /\ Read(A, j).err # Panic) =>
                              LET X == Flush(NextCall(Read(A, j)))
                                  Y == Flush(A)
                              IN  /\ X.err = Y.err
                                  /\ Bytes(X) = Bytes(Y)
                                  /\ \A k \in 1..MaxIndex : Payload(X, k) = Payload(Y, k)


\* the encoded entries of the accepted indices from lo to MaxIndex that are in S
RECURSIVE EncodedFrom(_, _)
EncodedFrom(lo, S) ==
    IF lo > MaxIndex THEN <<>>
    ELSE (IF lo \in S THEN EncodeVarint(Len(accepted[lo])) \o accepted[lo] ELSE <<>>)
             \o EncodedFrom(lo + 1, S)

\* C33: between calls the write buffer holds exactly the encoded entries of
\* the tail segment that are accepted and not yet in its data file, in index
\* order: none of another segment, none discarded by Truncate, Clean or Reset;
\* and the end of the tail's last index slot is the length of its data file
\* plus the number of buffered bytes
C33_BufferIsTailRest ==
    Up => /\ writeBuffer = EncodedFrom(1, unflushed)
          /\ segments = <<>> => writeBuffer = <<>>
          /\ (segments # <<>> /\ lastSegment = "last") =>
                LET s == Last(Cur)
                IN  /\ \A i \in unflushed : s.offset < i
                    /\ (s.indexMmap /\ s.len > 0) =>
                           Slot(files, s, s.len) = Fsize(files, s.logIno) + Len(writeBuffer)


\* the data file of the last segment of directory F is empty
EmptyTail(F) ==
    /\ LogNames(F) # {}
    /\ LET tail == CHOOSE x \in LogNames(F) : \A y \in LogNames(F) : ~SeqLess(x.stem, y.stem)
       IN  F[tail].data = <<>>

\* C34: after Open on a directory whose tail data file is empty (left by a
\* crash after the segment was created and before its first flush),
\* Write(last_index + 1, d) returns nil and after Flush Read(last_index)
\* returns d
C34_WriteAfterEmptyTail ==
    (~Up /\ EmptyTail(files)) =>
        \A noSplit \in BOOLEAN, d \in Data :
            LET O == Open(files, noSplit)
                W == Write(O, O.lastIndex + 1, d)
                F == Flush(W)
            IN  O.err = NoErr =>
                    /\ W.err = NoErr
                    /\ F.err = NoErr
                    /\ Read(F, F.lastIndex).err = NoErr
                    /\ Read(F, F.lastIndex).ret = d


\* Write(index, d) on W rolled over as it should: the buffer went into the old
\* tail, and the new tail has offset = last_index and the new entry as entry 1
RolledOverWell(W, index, d, R) ==
    LET old == Last(W)
        new == Last(R)
    IN  /\ Len(R.segments) = Len(W.segments) + 1
        /\ new.offset = W.lastIndex
        /\ new.len = 1
        /\ R.lastIndex = index
        /\ R.writeBuffer = EncodeVarint(Len(d)) \o d
        /\ R.files[old.logPath].data = W.files[old.logPath].data \o W.writeBuffer
        /\ R.files[old.logPath].synced = R.files[old.logPath].data

\* C35: no segment holds more than SegmentEntries entries, in memory or in its
\* data file, and a Write whose index exceeds tail.offset + SegmentEntries
\* flushes and syncs the buffer into the old tail and creates a new tail with
\* offset = last_index in which the new entry is entry 1
C35_SegmentEntriesBound ==
    Up => /\ \A k \in 1..Len(segments) :
                /\ segments[k].len <= SegmentEntries
                /\ EntriesOf(Cur, segments[k]) <= SegmentEntries
          /\ (segments # <<>> /\ lastIndex > 0) =>
                \A d \in Data :
                    LET index == lastIndex + 1
                        R == Write(Cur, index, d)
                    IN  (index > Last(Cur).offset + SegmentEntries /\ R.err = NoErr)
                            => RolledOverWell(Cur, index, d, R)


\* slot len of an index file: the end of the last entry, 0 when it has none
SlotLen(data) ==
    LET n == data[1]
    IN  IF n = 0 THEN 0 ELSE IF n + 1 <= Len(data) THEN data[n + 1] ELSE 0 - 1

\* the bytes of segment k accepted and not yet in its data file
Pending(W, k) ==
    IF k = Len(W.segments) /\ W.lastSegment = "last" THEN Len(W.writeBuffer) ELSE 0

\* C36: after Open and between calls, for every segment whose two files are on
\* disk the length of the data file (for the tail: plus the bytes still in the
\* write buffer) is the value of slot len of its index file
C36_DataLengthIsSlotLen ==
    Up => \A k \in 1..Len(segments) :
              LET s == segments[k]
              IN  (Exists(files, s.logPath) /\ Exists(files, s.indexPath)) =>
                      Fsize(files, s.logPath) + Pending(Cur, k)
                          = SlotLen(files[s.indexPath].data)


\* the segment list is sorted by strictly increasing offset
Ordered(segs) == \A i \in 1..(Len(segs) - 1) : segs[i].offset < segs[i + 1].offset

\* the entries of segment k: those accepted into the tail, those in the data
\* file of a segment before it
Entries(W, k) ==
    IF k = Len(W.segments) THEN W.segments[k].len ELSE EntriesOf(W, W.segments[k])

\* segment k of W is the one whose range (offset, offset + entries] holds index
Owns(W, k, index) ==
    /\ W.segments[k].offset < index
    /\ index <= W.segments[k].offset + Entries(W, k)

\* adjacent segments are contiguous, the first one starts at first_index - 1
\* and the last one ends at last_index
Contiguous(W) ==
    /\ \A k \in 1..(Len(W.segments) - 1) :
           W.segments[k + 1].offset = W.segments[k].offset + Entries(W, k)
    /\ W.segments # <<>> =>
           /\ W.segments[1].offset = W.firstIndex - 1
           /\ Last(W).offset + Last(W).len = W.lastIndex

C38_CloseIdempotent ==
    (phase = "up" /\ closed) => Refused(Close(Cur), Cur, NoErr)

====
